---- MODULE Spec2Model ----
(***************************************************************************)
(* Model of the I2C master driver core of stm32f1xx-hal (src/i2c.rs):     *)
(* Mode / frequency classification, I2c::new, I2c::init, I2c::reset, the   *)
(* bus primitives send_start / send_addr / send_stop and I2c::release.     *)
(*                                                                         *)
(* Registers are modelled as the values software reads and writes through  *)
(* the register block: a `write` starts from the register's reset value,   *)
(* a `modify` from its current value, and a field setter keeps only as     *)
(* many bits as the field is wide.  Every register write is one step, so   *)
(* the order of writes inside a handler is observable; the steps of one    *)
(* handler are forced by pc (the driver is single-threaded).               *)
(***************************************************************************)
EXTENDS Integers, Sequences, FiniteSets, TLC

(* ------------------------------ inputs -------------------------------- *)

\* Requested bus frequencies (Hz) tried by the model: zero, tiny, two values
\* whose standard-mode divisor does not fit the CCR field, both sides of the
\* 100 kHz threshold and both sides of the 400 kHz ceiling.
Freqs == {0, 1, 976, 4394, 100000, 100001, 200000, 400000, 400001}

\* APB1 clocks (Hz) handed over by the clock subsystem; the part allows
\* 2 MHz .. 36 MHz: both ends, 8 MHz, and 24.5 MHz for the truncation of
\* to_MHz.  new takes whatever the clocks argument reports, so one clock
\* above the range (64 MHz, whose rise time does not fit its field) is tried
\* as well.
Pclk1s == {2000000, 8000000, 24500000, 36000000, 64000000}

\* The input-clock range the part supports.
SupportedPclk1(hz) == hz >= 2000000 /\ hz <= 36000000

\* Addresses passed to send_addr in the main specification.
Addrs == {0, 80, 127, 128, 255}

\* Every u8 address, used by the address-frame specification.
AllAddrs == 0..255

\* (instance, raw pin tuple) pairs accepted by `new`.
PinArgs == { <<"I2C1", "No">>, <<"I2C1", "Remap">>, <<"I2C2", "No">> }

(* ---------------------------- arithmetic ------------------------------ *)

Max(a, b) == IF a >= b THEN a ELSE b

AsU16(x) == x % 65536

AsU8(x) == x % 256

kHz(k) == k * 1000

to_MHz(hz) == hz \div 1000000

(* ------------------------------- Mode --------------------------------- *)

DutyCycles == {"Ratio2to1", "Ratio16to9"}

standard(frequency) == [kind |-> "Standard", frequency |-> frequency]

fast(frequency, duty_cycle) ==
  [kind |-> "Fast", frequency |-> frequency, duty_cycle |-> duty_cycle]

get_frequency(m) == m.frequency

FromHertzStrict(frequency) ==
  IF frequency < kHz(100) THEN standard(frequency)
  ELSE fast(frequency, "Ratio2to1")

FromHertz(frequency) ==
  IF frequency <= kHz(100) THEN standard(frequency)
  ELSE fast(frequency, "Ratio2to1")

\* The `mode: M` argument of new, M: Into<Mode>: a bare frequency or a Mode.
ModeArgs ==
  { [tag |-> "hertz", hz |-> f] : f \in Freqs }
    \cup { [tag |-> "mode", mode |-> standard(f)] : f \in Freqs }
    \cup { [tag |-> "mode", mode |-> fast(f, d)] : f \in Freqs, d \in DutyCycles }

Into(arg) == IF arg.tag = "hertz" THEN FromHertz(arg.hz) ELSE arg.mode

NoMode == [kind |-> "None", frequency |-> 0]

(* ------------------------- timing calculation ------------------------- *)

pclk1_mhz(hz) == AsU16(to_MHz(hz))

\* CR2.FREQ is 6 bits wide.
FreqField(hz) == AsU8(pclk1_mhz(hz)) % 64

TriseStandardClamped(hz) ==
  IF pclk1_mhz(hz) + 1 > 63 THEN 63 ELSE pclk1_mhz(hz) + 1

\* TRISE.TRISE is 6 bits wide.
TriseStandard(hz) == AsU8(pclk1_mhz(hz) + 1) % 64

TriseFast(hz) == AsU8(((pclk1_mhz(hz) * 300) \div 1000) + 1) % 64

\* Divisor of the clock-control computation: freq * 2, freq * 3 or freq * 25.
CcrDivisor(m) ==
  IF m.kind = "Standard" THEN get_frequency(m) * 2
  ELSE IF m.duty_cycle = "Ratio2to1" THEN get_frequency(m) * 3
  ELSE get_frequency(m) * 25

CcrStandardClamp1(hz, m) == Max(AsU16(hz \div CcrDivisor(m)), 1)

\* The u16 handed to w.ccr().bits(..).
CcrStandard(hz, m) == Max(AsU16(hz \div CcrDivisor(m)), 4)

CcrFastSwapped(hz, m) ==
  IF m.duty_cycle = "Ratio2to1"
  THEN <<Max(AsU16(hz \div (get_frequency(m) * 25)), 1), FALSE>>
  ELSE <<Max(AsU16(hz \div (get_frequency(m) * 3)), 1), TRUE>>

\* The (freq, duty) pair of the fast-mode match.
CcrFast(hz, m) ==
  IF m.duty_cycle = "Ratio2to1"
  THEN <<Max(AsU16(hz \div CcrDivisor(m)), 1), FALSE>>
  ELSE <<Max(AsU16(hz \div CcrDivisor(m)), 1), TRUE>>

\* CCR.CCR is 12 bits wide; write() starts from the reset value, so DUTY and
\* F/S are clear unless set.
CcrValue(hz, m) ==
  IF m.kind = "Standard"
  THEN [ccr |-> CcrStandard(hz, m) % 4096, duty |-> FALSE, f_s |-> FALSE]
  ELSE [ccr |-> CcrFast(hz, m)[1] % 4096, duty |-> CcrFast(hz, m)[2], f_s |-> TRUE]

FreqOkStrict(m) == get_frequency(m) < kHz(400)

\* The precondition asserted by new.
FreqOk(m) == get_frequency(m) <= kHz(400)

(* ----------------------------- registers ------------------------------ *)

Cr1ResetValue == {}

TriseResetValue == 2

CcrResetValue == [ccr |-> 0, duty |-> FALSE, f_s |-> FALSE]

Cr1ClearPeBroken == Cr1ResetValue \cup {"PE"}

\* cr1.write(|w| w.pe().clear_bit())
Cr1ClearPe == Cr1ResetValue \ {"PE"}

Cr1SetPeDropped(c) == c

\* cr1.modify(|_, w| w.pe().set_bit())
Cr1SetPe(c) == c \cup {"PE"}

Cr1SwrstOnly == Cr1ResetValue \cup {"SWRST"}

\* cr1.write(|w| w.pe().set_bit().swrst().set_bit())
Cr1Swrst == Cr1ResetValue \cup {"PE", "SWRST"}

Cr1AfterResetKept(c) == c

\* cr1.reset()
Cr1AfterReset(c) == Cr1ResetValue

Cr1SetStartWritten(c) == Cr1ResetValue \cup {"START"}

\* cr1.modify(|_, w| w.start().set_bit())
Cr1SetStart(c) == c \cup {"START"}

Cr1SetStopWritten(c) == Cr1ResetValue \cup {"STOP"}

\* cr1.modify(|_, w| w.stop().set_bit())
Cr1SetStop(c) == c \cup {"STOP"}

AddrByteNoShift(addr, read) == AsU8(addr) + (IF read THEN 1 ELSE 0)

\* addr << 1 | u8::from(read)
AddrByte(addr, read) == AsU8(addr * 2) + (IF read THEN 1 ELSE 0)

(* ------------------------------- state -------------------------------- *)

VARIABLES
  pc,        \* position of the driver code ("uncalled": new not yet called)
  modeArg,   \* `mode` argument of new
  pinArg,    \* (instance, raw pins) arguments of new
  clocks,    \* APB1 clock reported by the `clocks` argument of new
  mode,      \* I2c.mode (the local `mode` of new before the handle exists)
  pclk1,     \* I2c.pclk1 (the local `pclk1` of new before the handle exists)
  i2c,       \* I2c.i2c: the peripheral instance owned by the handle
  pins,      \* I2c.pins: the pin set owned by the handle
  rccEn,     \* clock gate of the peripheral in RCC
  mapr,      \* AFIO MAPR.I2C1_REMAP
  cr1,       \* CR1 as the set of its set bits among PE, START, STOP, SWRST
  cr2,       \* CR2.FREQ
  trise,     \* TRISE.TRISE
  ccr,       \* CCR: [ccr, duty, f_s]
  dr,        \* DR
  trace,     \* register writes of the operation in progress (or last finished)
  initAt,    \* length of trace when init was entered
  caller,    \* who called init: "new" or "reset"
  panic,     \* "none", "assert" (line 172) or "div0" (division by zero in init)
  fresh,     \* the registers when new returned
  lastOp,    \* last completed operation
  lastArgs,  \* its arguments
  prevOp,    \* lastOp when the running or last reset began
  snap,      \* the registers when the running or last reset began
  ret        \* what release returned

vars == <<pc, modeArg, pinArg, clocks, mode, pclk1, i2c, pins, rccEn, mapr,
          cr1, cr2, trise, ccr, dr, trace, initAt, caller, panic, fresh,
          lastOp, lastArgs, prevOp, snap, ret>>

args == <<modeArg, pinArg, clocks>>
handle == <<mode, pclk1, i2c, pins>>
ghost == <<fresh, lastOp, lastArgs, prevOp, snap>>

Regs == [cr1 |-> cr1, cr2 |-> cr2, trise |-> trise, ccr |-> ccr, dr |-> dr]

ResetRegs ==
  [cr1 |-> Cr1ResetValue, cr2 |-> 0, trise |-> TriseResetValue,
   ccr |-> CcrResetValue, dr |-> 0]

\* CR1 before new is called: at its reset value, or still enabled by an
\* earlier handle that was released (release leaves the hardware as it is).
PriorCr1 == { Cr1ResetValue, {"PE"} }

\* One register write: the register, and CR1 before and after the write.
Log(reg, after) == Append(trace, [reg |-> reg, before |-> cr1, after |-> after])

Init ==
  /\ pc = "uncalled"
  /\ modeArg = [tag |-> "hertz", hz |-> 0]
  /\ pinArg = <<"I2C1", "No">>
  /\ clocks = 0
  /\ mode = NoMode
  /\ pclk1 = 0
  /\ i2c = "none"
  /\ pins = "none"
  /\ rccEn = FALSE
  /\ mapr = FALSE
  /\ cr1 \in PriorCr1
  /\ cr2 = 0
  /\ trise = TriseResetValue
  /\ ccr = CcrResetValue
  /\ dr = 0
  /\ trace = <<>>
  /\ initAt = 0
  /\ caller = "none"
  /\ panic = "none"
  /\ fresh = ResetRegs
  /\ lastOp = "none"
  /\ lastArgs = <<>>
  /\ prevOp = "none"
  /\ snap = ResetRegs
  /\ ret = <<>>

(* ------------------------------ I2c::new ------------------------------ *)

\* new is entered; let mode = mode.into()
NewCallWith(MA, PA, CL) ==
  /\ pc = "uncalled"
  /\ \E a \in MA, p \in PA, c \in CL :
       /\ modeArg' = a
       /\ pinArg' = p
       /\ clocks' = c
       /\ mode' = Into(a)
  /\ trace' = <<>>
  /\ pc' = "new_enable"
  /\ UNCHANGED <<pclk1, i2c, pins, rccEn, mapr, cr1, cr2, trise, ccr, dr,
                 initAt, caller, panic, ghost, ret>>

NewCall == NewCallWith(ModeArgs, PinArgs, Pclk1s)

\* I2C::enable(rcc)
NewRccEnable ==
  /\ pc = "new_enable"
  /\ rccEn' = TRUE
  /\ trace' = Log("RCC_APB1ENR", cr1)
  /\ pc' = "new_reset"
  /\ UNCHANGED <<args, handle, mapr, cr1, cr2, trise, ccr, dr, initAt, caller,
                 panic, ghost, ret>>

\* I2C::reset(rcc): the reset pulse puts every peripheral register at its
\* reset value.
NewRccReset ==
  /\ pc = "new_reset"
  /\ cr1' = ResetRegs.cr1
  /\ cr2' = ResetRegs.cr2
  /\ trise' = ResetRegs.trise
  /\ ccr' = ResetRegs.ccr
  /\ dr' = ResetRegs.dr
  /\ trace' = Log("RCC_APB1RSTR", ResetRegs.cr1)
  /\ pc' = "new_clock"
  /\ UNCHANGED <<args, handle, rccEn, mapr, initAt, caller, panic, ghost, ret>>

\* let pclk1 = I2C::clock(&clocks)
NewClock ==
  /\ pc = "new_clock"
  /\ pclk1' = clocks
  /\ pc' = "new_assert"
  /\ UNCHANGED <<args, mode, i2c, pins, rccEn, mapr, cr1, cr2, trise, ccr, dr,
                 trace, initAt, caller, panic, ghost, ret>>

\* assert!(mode.get_frequency() <= kHz(400)) holds
NewAssertPass ==
  /\ pc = "new_assert"
  /\ FreqOk(mode)
  /\ pc' = "new_struct"
  /\ UNCHANGED <<args, handle, rccEn, mapr, cr1, cr2, trise, ccr, dr, trace,
                 initAt, caller, panic, ghost, ret>>

\* assert!(mode.get_frequency() <= kHz(400)) fails: new panics
NewAssertFail ==
  /\ pc = "new_assert"
  /\ ~FreqOk(mode)
  /\ pc' = "panicked"
  /\ panic' = "assert"
  /\ UNCHANGED <<args, handle, rccEn, mapr, cr1, cr2, trise, ccr, dr, trace,
                 initAt, caller, ghost, ret>>

\* I2c { i2c, pins: pins.into(), mode, pclk1 }; i2c.init() is entered.
\* The conversion of an I2C1 pin tuple writes MAPR.I2C1_REMAP; the I2C2
\* conversion takes no MAPR.
NewStruct ==
  /\ pc = "new_struct"
  /\ i2c' = pinArg[1]
  /\ pins' = pinArg[2]
  /\ IF pinArg[1] = "I2C1"
       THEN /\ mapr' = (pinArg[2] = "Remap")
            /\ trace' = Log("AFIO_MAPR", cr1)
       ELSE UNCHANGED <<mapr, trace>>
  /\ initAt' = Len(trace')
  /\ caller' = "new"
  /\ pc' = "init_cr2"
  /\ UNCHANGED <<args, mode, pclk1, rccEn, cr1, cr2, trise, ccr, dr, panic,
                 ghost, ret>>

(* ------------------------------ I2c::init ----------------------------- *)

\* cr2.write(|w| w.freq().bits(pclk1_mhz as u8))
InitCr2 ==
  /\ pc = "init_cr2"
  /\ cr2' = FreqField(pclk1)
  /\ trace' = Log("CR2", cr1)
  /\ pc' = "init_cr1"
  /\ UNCHANGED <<args, handle, rccEn, mapr, cr1, trise, ccr, dr, initAt,
                 caller, panic, ghost, ret>>

\* cr1.write(|w| w.pe().clear_bit())
InitCr1 ==
  /\ pc = "init_cr1"
  /\ cr1' = Cr1ClearPe
  /\ trace' = Log("CR1", Cr1ClearPe)
  /\ pc' = "init_trise"
  /\ UNCHANGED <<args, handle, rccEn, mapr, cr2, trise, ccr, dr, initAt,
                 caller, panic, ghost, ret>>

\* trise.write(..) of the arm of the match taken
InitTrise ==
  /\ pc = "init_trise"
  /\ trise' = IF mode.kind = "Standard" THEN TriseStandard(pclk1)
              ELSE TriseFast(pclk1)
  /\ trace' = Log("TRISE", cr1)
  /\ pc' = "init_ccr"
  /\ UNCHANGED <<args, handle, rccEn, mapr, cr1, cr2, ccr, dr, initAt, caller,
                 panic, ghost, ret>>

\* ccr.write(..) of the arm of the match taken
InitCcr ==
  /\ pc = "init_ccr"
  /\ CcrDivisor(mode) # 0
  /\ ccr' = CcrValue(pclk1, mode)
  /\ trace' = Log("CCR", cr1)
  /\ pc' = "init_pe"
  /\ UNCHANGED <<args, handle, rccEn, mapr, cr1, cr2, trise, dr, initAt,
                 caller, panic, ghost, ret>>

\* self.pclk1 / (freq * k) with freq = 0: the division panics inside the
\* closure, before CCR is written.
InitCcrPanic ==
  /\ pc = "init_ccr"
  /\ CcrDivisor(mode) = 0
  /\ pc' = "panicked"
  /\ panic' = "div0"
  /\ UNCHANGED <<args, handle, rccEn, mapr, cr1, cr2, trise, ccr, dr, trace,
                 initAt, caller, ghost, ret>>

\* cr1.modify(|_, w| w.pe().set_bit()); init returns to its caller, which
\* returns too.
InitPe ==
  /\ pc = "init_pe"
  /\ cr1' = Cr1SetPe(cr1)
  /\ trace' = Log("CR1", Cr1SetPe(cr1))
  /\ pc' = "idle"
  /\ lastOp' = caller
  /\ lastArgs' = <<>>
  /\ fresh' = IF caller = "new" THEN [Regs EXCEPT !.cr1 = Cr1SetPe(cr1)] ELSE fresh
  /\ UNCHANGED <<args, handle, rccEn, mapr, cr2, trise, ccr, dr, initAt,
                 caller, panic, prevOp, snap, ret>>

(* ------------------------------ I2c::reset ---------------------------- *)

\* cr1.write(|w| w.pe().set_bit().swrst().set_bit())
ResetSwrst ==
  /\ pc = "idle"
  /\ cr1' = Cr1Swrst
  /\ trace' = <<[reg |-> "CR1", before |-> cr1, after |-> Cr1Swrst]>>
  /\ prevOp' = lastOp
  /\ snap' = Regs
  /\ pc' = "reset_cr1"
  /\ UNCHANGED <<args, handle, rccEn, mapr, cr2, trise, ccr, dr, initAt,
                 caller, panic, fresh, lastOp, lastArgs, ret>>

\* cr1.reset(); self.init() is entered
ResetCr1 ==
  /\ pc = "reset_cr1"
  /\ cr1' = Cr1AfterReset(cr1)
  /\ trace' = Log("CR1", Cr1AfterReset(cr1))
  /\ initAt' = Len(trace')
  /\ caller' = "reset"
  /\ pc' = "init_cr2"
  /\ UNCHANGED <<args, handle, rccEn, mapr, cr2, trise, ccr, dr, panic, ghost,
                 ret>>

(* --------------------------- bus primitives --------------------------- *)

\* cr1.modify(|_, w| w.start().set_bit())
send_start ==
  /\ pc = "idle"
  /\ cr1' = Cr1SetStart(cr1)
  /\ trace' = <<[reg |-> "CR1", before |-> cr1, after |-> Cr1SetStart(cr1)]>>
  /\ lastOp' = "send_start"
  /\ lastArgs' = <<>>
  /\ prevOp' = "none"
  /\ snap' = ResetRegs
  /\ UNCHANGED <<pc, args, handle, rccEn, mapr, cr2, trise, ccr, dr, initAt,
                 caller, panic, fresh, ret>>

\* dr.write(|w| w.dr().bits(addr << 1 | (u8::from(read))))
send_addr_in(A) ==
  /\ pc = "idle"
  /\ \E addr \in A, read \in BOOLEAN :
       /\ dr' = AddrByte(addr, read)
       /\ lastArgs' = <<addr, read>>
  /\ trace' = <<[reg |-> "DR", before |-> cr1, after |-> cr1]>>
  /\ lastOp' = "send_addr"
  /\ prevOp' = "none"
  /\ snap' = ResetRegs
  /\ UNCHANGED <<pc, args, handle, rccEn, mapr, cr1, cr2, trise, ccr, initAt,
                 caller, panic, fresh, ret>>

send_addr == send_addr_in(Addrs)

\* cr1.modify(|_, w| w.stop().set_bit())
send_stop ==
  /\ pc = "idle"
  /\ cr1' = Cr1SetStop(cr1)
  /\ trace' = <<[reg |-> "CR1", before |-> cr1, after |-> Cr1SetStop(cr1)]>>
  /\ lastOp' = "send_stop"
  /\ lastArgs' = <<>>
  /\ prevOp' = "none"
  /\ snap' = ResetRegs
  /\ UNCHANGED <<pc, args, handle, rccEn, mapr, cr2, trise, ccr, dr, initAt,
                 caller, panic, fresh, ret>>

releaseDisabling ==
  /\ pc = "idle"
  /\ ret' = <<i2c, pins>>
  /\ cr1' = cr1 \ {"PE"}
  /\ pc' = "released"
  /\ UNCHANGED <<args, handle, rccEn, mapr, cr2, trise, ccr, dr, trace,
                 initAt, caller, panic, ghost>>

\* (self.i2c, self.pins)
release ==
  /\ pc = "idle"
  /\ ret' = <<i2c, pins>>
  /\ pc' = "released"
  /\ UNCHANGED <<args, handle, rccEn, mapr, cr1, cr2, trise, ccr, dr, trace,
                 initAt, caller, panic, ghost>>

(* --------------------------- specifications --------------------------- *)

Next ==
  \/ NewCall
  \/ NewRccEnable
  \/ NewRccReset
  \/ NewClock
  \/ NewAssertPass
  \/ NewAssertFail
  \/ NewStruct
  \/ InitCr2
  \/ InitCr1
  \/ InitTrise
  \/ InitCcr
  \/ InitCcrPanic
  \/ InitPe
  \/ ResetSwrst
  \/ ResetCr1
  \/ send_start
  \/ send_addr
  \/ send_stop
  \/ release

Spec == Init /\ [][Next]_vars

\* The address-frame specification: one construction, then send_addr over
\* every u8 address.
AddrModeArgs == { [tag |-> "hertz", hz |-> 100000] }

AddrPinArgs == { <<"I2C1", "No">> }

AddrClocks == { 8000000 }

NewCallAddr == NewCallWith(AddrModeArgs, AddrPinArgs, AddrClocks)

send_addr_all == send_addr_in(AllAddrs)

NextAddr ==
  \/ NewCallAddr
  \/ NewRccEnable
  \/ NewRccReset
  \/ NewClock
  \/ NewAssertPass
  \/ NewStruct
  \/ InitCr2
  \/ InitCr1
  \/ InitTrise
  \/ InitCcr
  \/ InitPe
  \/ send_addr_all

SpecAddr == Init /\ [][NextAddr]_vars

(* ------------------------------- claims ------------------------------- *)

TimingRegs == {"CR2", "TRISE", "CCR"}

InitStages == {"init_cr2", "init_cr1", "init_trise", "init_ccr", "init_pe"}

\* init is running, has panicked, or was the last thing to run.
InitSeen ==
  \/ pc \in InitStages
  \/ panic = "div0"
  \/ pc \in {"idle", "released"} /\ lastOp \in {"new", "reset"}

\* init ran to its end and nothing ran since.
InitDone == pc = "idle" /\ lastOp \in {"new", "reset"}

\* The register writes of the init execution in progress or last finished.
InitTrace == SubSeq(trace, initAt + 1, Len(trace))

InitOrder == <<"CR2", "CR1", "TRISE", "CCR", "CR1">>

\* C1 as stated: in every execution of init the write clearing PE is the
\* first register write, the writes of the input-clock field, the rise time
\* and the clock control all come after it, and the write setting PE is the
\* last one.
C1_PeClearFirst ==
  InitDone =>
    /\ InitTrace[1].reg = "CR1"
    /\ "PE" \notin InitTrace[1].after
    /\ \A k \in 2..(Len(InitTrace) - 1) : InitTrace[k].reg \in TimingRegs
    /\ InitTrace[Len(InitTrace)].reg = "CR1"
    /\ "PE" \in InitTrace[Len(InitTrace)].after

\* C1 amended: in every execution of init the write of the input-clock field
\* (CR2) is the first register write and finds PE already clear, the write
\* clearing PE is the second, the rise-time and clock-control writes follow it
\* in this order, and the write setting PE is the fifth and last.
C1_InitWriteOrder ==
  InitSeen =>
    /\ Len(InitTrace) <= Len(InitOrder)
    /\ \A k \in 1..Len(InitTrace) : InitTrace[k].reg = InitOrder[k]
    /\ Len(InitTrace) >= 1 => "PE" \notin InitTrace[1].before
    /\ Len(InitTrace) >= 2 => "PE" \notin InitTrace[2].after
    /\ \A k \in 3..Len(InitTrace) :
         k < 5 => "PE" \notin InitTrace[k].before /\ InitTrace[k].after = InitTrace[k].before
    /\ Len(InitTrace) = 5 => "PE" \in InitTrace[5].after
    /\ InitDone => Len(InitTrace) = 5

C1_Witness ==
  /\ InitDone
  /\ lastOp = "reset"
  /\ Len(InitTrace) = 5
  /\ InitTrace[1].reg = "CR2"

\* C2: in every reachable execution the peripheral-enable bit is 0 at the
\* moment of each write to the input-clock field, the rise-time register and
\* the clock-control register.
C2_TimingWritesWhileDisabled ==
  \A k \in 1..Len(trace) :
    trace[k].reg \in TimingRegs => "PE" \notin trace[k].before

C2_Witness ==
  /\ pc = "init_pe"
  /\ caller = "reset"
  /\ "START" \in snap.cr1
  /\ {trace[k].reg : k \in 1..Len(trace)} = {"CR1", "CR2", "TRISE", "CCR"}

\* C3 as stated: when construction aborts on a frequency above 400 kHz, no
\* hardware register of any kind has been written since new was called.
C3_NoWriteBeforeAbort == panic = "assert" => trace = <<>>

\* C3 amended: construction with a frequency above 400 kHz always aborts at
\* the assertion; by then the clock gate has been enabled and the reset line
\* pulsed (the peripheral registers are at their reset values), but the
\* driver has written no peripheral register, converted no pins and written
\* no pin remap; a frequency of exactly 400 kHz does not abort.
C3_AbortAfterRccOnly ==
  /\ pc \notin {"uncalled", "new_enable", "new_reset", "new_clock", "new_assert"}
       => (panic = "assert" <=> mode.frequency > 400000)
  /\ mode.frequency = 400000 => panic = "none" /\ pc # "panicked"
  /\ panic = "assert" =>
       /\ pc = "panicked"
       /\ [k \in 1..Len(trace) |-> trace[k].reg] = <<"RCC_APB1ENR", "RCC_APB1RSTR">>
       /\ rccEn
       /\ Regs = ResetRegs
       /\ mapr = FALSE
       /\ i2c = "none"
       /\ pins = "none"

C3_Witness ==
  /\ panic = "assert"
  /\ mode = fast(400001, "Ratio2to1")
  /\ pinArg = <<"I2C1", "Remap">>

\* C4: after any sequence of bus primitives and resets, reset leaves CR1, the
\* input-clock field, the rise time and the clock control exactly as a fresh
\* construction with the same Mode and pclk1 left them (START, STOP and SWRST
\* clear, PE set), and a reset right after a reset changes nothing.
C4_ResetRestoresFresh ==
  (pc = "idle" /\ lastOp = "reset") =>
    /\ cr1 = fresh.cr1
    /\ cr2 = fresh.cr2
    /\ trise = fresh.trise
    /\ ccr = fresh.ccr
    /\ cr1 = {"PE"}
    /\ mode = Into(modeArg)
    /\ pclk1 = clocks
    /\ prevOp = "reset" => Regs = snap

C4_Witness ==
  /\ pc = "idle"
  /\ lastOp = "reset"
  /\ prevOp = "send_stop"
  /\ {"PE", "START", "STOP"} \subseteq snap.cr1
  /\ mode.kind = "Fast"

\* C5: for every Standard mode with 0 < f <= 100 kHz and every supported
\* pclk1, init leaves max(4, pclk1 div (2 f)) in the clock-control divisor
\* field and (pclk1 div 1 MHz) + 1 in the rise-time field.
C5_StandardTiming ==
  (pc = "idle" /\ mode.kind = "Standard" /\ SupportedPclk1(pclk1)
     /\ mode.frequency > 0 /\ mode.frequency <= 100000) =>
    /\ ccr.ccr = Max(4, pclk1 \div (2 * mode.frequency))
    /\ trise = (pclk1 \div 1000000) + 1

\* C6: for every Fast mode with 100 kHz < f <= 400 kHz and every supported
\* pclk1, Ratio2to1 gives divisor max(1, pclk1 div (3 f)) and duty 0,
\* Ratio16to9 gives divisor max(1, pclk1 div (25 f)) and duty 1; the
\* mode-select flag is 1 and the rise time is
\* ((pclk1 div 1 MHz) * 300 div 1000) + 1.
C6_FastTiming ==
  (pc = "idle" /\ mode.kind = "Fast" /\ SupportedPclk1(pclk1)
     /\ mode.frequency > 100000 /\ mode.frequency <= 400000) =>
    /\ mode.duty_cycle = "Ratio2to1" =>
         /\ ccr.ccr = Max(1, pclk1 \div (3 * mode.frequency))
         /\ ccr.duty = FALSE
    /\ mode.duty_cycle = "Ratio16to9" =>
         /\ ccr.ccr = Max(1, pclk1 \div (25 * mode.frequency))
         /\ ccr.duty = TRUE
    /\ ccr.f_s = TRUE
    /\ trise = (((pclk1 \div 1000000) * 300) \div 1000) + 1

C6_Witness ==
  /\ pc = "idle"
  /\ mode = fast(400000, "Ratio16to9")
  /\ pclk1 = 8000000
  /\ ccr = [ccr |-> 1, duty |-> TRUE, f_s |-> TRUE]
  /\ trise = 3

\* C7: for every accepted mode (0 < f <= 400 kHz) and every supported pclk1
\* the divisor that lands in the 12-bit field is at least 4 in Standard mode
\* and at least 1 in Fast mode.
C7_DivisorMinimum ==
  (pc = "idle" /\ SupportedPclk1(pclk1)
     /\ mode.frequency > 0 /\ mode.frequency <= 400000) =>
    /\ mode.kind = "Standard" => ccr.ccr >= 4
    /\ mode.kind = "Fast" => ccr.ccr >= 1

\* C8: construction aborts if and only if the frequency exceeds 400 kHz: for
\* every frequency <= 400 kHz and every pclk1 it completes and ends Enabled.
C8_OnlyCeilingAborts ==
  /\ pc = "panicked" => mode.frequency > 400000
  /\ (pc = "idle" /\ lastOp = "new") => "PE" \in cr1 /\ mode.frequency <= 400000

\* C9: every frequency f <= 100 kHz converts to Standard{f}, every f above
\* 100 kHz to Fast{f, Ratio2to1}, and the resulting Mode carries f.
C9_FromHertz ==
  (pc # "uncalled" /\ modeArg.tag = "hertz") =>
    /\ modeArg.hz <= 100000 => mode = [kind |-> "Standard", frequency |-> modeArg.hz]
    /\ modeArg.hz > 100000 =>
         mode = [kind |-> "Fast", frequency |-> modeArg.hz, duty_cycle |-> "Ratio2to1"]
    /\ get_frequency(mode) = modeArg.hz

C9_Witness ==
  /\ pc = "idle"
  /\ modeArg = [tag |-> "hertz", hz |-> 100000]
  /\ mode.kind = "Standard"
  /\ ccr.f_s = FALSE

\* C10: send_addr writes to the data register exactly ((2 a) mod 256) + read,
\* which is 2 a + read for a 7-bit address (0x50 read -> 0xA1, 0x50 write ->
\* 0xA0); it never fails and writes no other register.
C10_AddrFrame ==
  [][ (pc = "idle" /\ pc' = "idle" /\ lastOp' = "send_addr") =>
        LET a == lastArgs'[1]
            r == IF lastArgs'[2] THEN 1 ELSE 0
        IN /\ dr' = ((2 * a) % 256) + r
           /\ a <= 127 => dr' = 2 * a + r
           /\ lastArgs' = <<80, TRUE>> => dr' = 161
           /\ lastArgs' = <<80, FALSE>> => dr' = 160
           /\ panic' = "none"
           /\ [k \in 1..Len(trace') |-> trace'[k].reg] = <<"DR">>
           /\ UNCHANGED <<cr1, cr2, trise, ccr, rccEn, mapr, handle>> ]_vars

C10_Witness ==
  /\ pc = "idle"
  /\ lastOp = "send_addr"
  /\ lastArgs = <<208, TRUE>>
  /\ dr = 161

\* C11: release, called in any state reachable after construction, returns
\* exactly the peripheral instance and the pin set bound at construction and
\* changes no hardware register (a set peripheral-enable bit stays set).
C11_ReleaseReturnsAll ==
  [][ (pc = "idle" /\ pc' = "released") =>
        /\ ret' = <<pinArg[1], pinArg[2]>>
        /\ ret' = <<i2c, pins>>
        /\ "PE" \in cr1'
        /\ UNCHANGED <<cr1, cr2, trise, ccr, dr, rccEn, mapr>> ]_vars

C11_Witness ==
  /\ pc = "released"
  /\ ret = <<"I2C1", "Remap">>
  /\ {"PE", "START"} \subseteq cr1
  /\ dr = 161

\* The rise time init computes for the stored mode and clock, before it is cut
\* to the register field.
RiseComputed ==
  IF mode.kind = "Standard" THEN (pclk1 \div 1000000) + 1
  ELSE (((pclk1 \div 1000000) * 300) \div 1000) + 1

\* init has written the rise-time register.
TriseWritten ==
  \/ pc \in {"init_ccr", "init_pe", "idle", "released"}
  \/ panic = "div0"

\* C12 as stated: the value that lands in the rise-time field is
\* min(computed rise time, largest value of the field), never a wrapped or
\* bit-truncated value.
C12_TriseClamped ==
  TriseWritten => trise = (IF RiseComputed > 63 THEN 63 ELSE RiseComputed)

\* C12 amended: the value that lands in the rise-time field is the computed
\* rise time cut to the 6 bits of the field (computed mod 64), not clamped;
\* in the supported clock range the computed value fits and lands unchanged.
C12_TriseTruncated ==
  TriseWritten =>
    /\ trise = RiseComputed % 64
    /\ SupportedPclk1(pclk1) => trise = RiseComputed

C12_Witness ==
  /\ pc = "idle"
  /\ mode.kind = "Standard"
  /\ pclk1 = 64000000
  /\ trise = 1

\* Peripheral enabled and not held in software reset.
Enabled == "PE" \in cr1 /\ "SWRST" \notin cr1

BusPrimitives == {"send_start", "send_addr", "send_stop"}

\* C13: once construction has returned, the controller is Enabled (PE set,
\* SWRST clear) at every operation boundary, so a bus primitive never runs on
\* a Disabled or Unconfigured peripheral; the peripheral is not Enabled only
\* inside construction or software reset, and SWRST is set only in the
\* Unconfigured step of software reset.
C13_EnabledAtBoundaries ==
  /\ pc \in {"idle", "released"} => Enabled
  /\ ~Enabled =>
       \/ pc \in {"uncalled", "new_enable", "new_reset", "new_clock",
                  "new_assert", "new_struct", "reset_cr1", "panicked"}
       \/ pc \in InitStages
  /\ pc = "panicked" => lastOp = "none"
  /\ "SWRST" \in cr1 => pc = "reset_cr1" /\ "PE" \in cr1
  /\ (pc = "idle" /\ lastOp \in BusPrimitives) =>
       /\ "PE" \in trace[1].before
       /\ "SWRST" \notin trace[1].before

C13_Witness ==
  /\ pc = "idle"
  /\ lastOp = "send_addr"
  /\ cr1 = {"PE", "START", "STOP"}
  /\ fresh.cr1 = {"PE"}

\* reset is running or was the last thing to run.
ResetSeen ==
  \/ pc = "reset_cr1"
  \/ pc \in InitStages /\ caller = "reset"
  \/ pc = "idle" /\ lastOp = "reset"

\* C14: software reset first sets PE and SWRST together in one register
\* write, then returns CR1 to its power-on default (both clear), then runs
\* init; no timing register is written while SWRST is set, and SWRST is clear
\* when reset returns.
C14_ResetOrder ==
  ResetSeen =>
    /\ Len(trace) >= 1
    /\ trace[1].reg = "CR1"
    /\ trace[1].after = {"PE", "SWRST"}
    /\ pc = "reset_cr1" => Len(trace) = 1 /\ cr1 = {"PE", "SWRST"}
    /\ pc # "reset_cr1" =>
         /\ Len(trace) >= 2
         /\ trace[2].reg = "CR1"
         /\ trace[2].after = {}
         /\ initAt = 2
    /\ \A k \in 3..Len(trace) : k - 2 <= Len(InitOrder) /\ trace[k].reg = InitOrder[k - 2]
    /\ \A k \in 1..Len(trace) :
         trace[k].reg \in TimingRegs => k > 2 /\ "SWRST" \notin trace[k].before
    /\ (pc = "idle" /\ lastOp = "reset") => Len(trace) = 7 /\ "SWRST" \notin cr1

C14_Witness ==
  /\ pc = "idle"
  /\ lastOp = "reset"
  /\ Len(trace) = 7
  /\ "STOP" \in snap.cr1
  /\ trace[1].after = {"PE", "SWRST"}

\* C15: send_start sets the START bit and send_stop the STOP bit by
\* read-modify-write; each leaves every other control bit and all timing and
\* data registers unchanged, and neither clears PE.
C15_PrimitivesOneBit ==
  [][ /\ (pc = "idle" /\ pc' = "idle" /\ lastOp' = "send_start") =>
           /\ cr1' = cr1 \cup {"START"}
           /\ "PE" \in cr1 => "PE" \in cr1'
           /\ [k \in 1..Len(trace') |-> trace'[k].reg] = <<"CR1">>
           /\ UNCHANGED <<cr2, trise, ccr, dr, rccEn, mapr, handle>>
      /\ (pc = "idle" /\ pc' = "idle" /\ lastOp' = "send_stop") =>
           /\ cr1' = cr1 \cup {"STOP"}
           /\ "PE" \in cr1 => "PE" \in cr1'
           /\ [k \in 1..Len(trace') |-> trace'[k].reg] = <<"CR1">>
           /\ UNCHANGED <<cr2, trise, ccr, dr, rccEn, mapr, handle>> ]_vars

C15_Witness ==
  /\ pc = "idle"
  /\ lastOp = "send_start"
  /\ cr1 = {"PE", "START", "STOP"}
  /\ dr = 160

\* The handle exists: new has built the I2c value.
HandleExists ==
  \/ pc \in InitStages
  \/ pc \in {"reset_cr1", "idle", "released"}
  \/ panic = "div0"

\* freq * 2, freq * 3 or freq * 25 for the stored mode.
RateDivisor ==
  IF mode.kind = "Standard" THEN 2 * mode.frequency
  ELSE IF mode.duty_cycle = "Ratio2to1" THEN 3 * mode.frequency
  ELSE 25 * mode.frequency

C17_NeverUnderDivides ==
  (pc = "idle" /\ SupportedPclk1(pclk1)
     /\ mode.frequency > 0 /\ mode.frequency <= 400000) =>
    ccr.ccr * RateDivisor >= pclk1

====
